---- MODULE Spec2Model ----
(***************************************************************************)
(* Model of src/device.rs: the Device facade over a shared Handle          *)
(* (Arc<Handle>), its control enumeration, single-control fetch and        *)
(* batched control update, and the Handle's release on last drop.          *)
(*                                                                         *)
(* 32-bit unsigned quantities (control ids, menu indices, counts, sizes)   *)
(* are kept as two 16-bit halves [hi, lo], so that masks, flag bits and    *)
(* two's-complement casts are computed on the bits.                        *)
(***************************************************************************)
EXTENDS Integers, Sequences, FiniteSets, TLC

\* ------------------------------------------------------------------ bounds
MaxClones == 2
MaxControls == 2
MaxBatch == 3

\* --------------------------------------------------------------- 32-bit words
Half == 2^16

U32(h, l) == [hi |-> h, lo |-> l]

Zero32 == U32(0, 0)

\* n as u32, for an integer n the model can hold (two's complement for n < 0)
AsU32(n) == U32((n \div Half) % Half, n % Half)

\* w < v as unsigned 32-bit numbers
LessU32(w, v) == w.hi < v.hi \/ (w.hi = v.hi /\ w.lo < v.lo)

\* the i32 a 32-bit pattern denotes; `as i64` keeps that number
AsI64(w) == IF w.hi >= 32768 THEN (w.hi - Half) * Half + w.lo ELSE w.hi * Half + w.lo

\* x |= flag, for a flag that is one bit of the upper half
OrHiBit(w, bit) == IF (w.hi \div bit) % 2 = 1 THEN w ELSE U32(w.hi + bit, w.lo)

V4L2_CTRL_FLAG_NEXT_CTRL == 32768
V4L2_CTRL_FLAG_NEXT_COMPOUND == 16384

\* ------------------------------------------------------------------- errors
NoError == [origin |-> "none", kind |-> "none", text |-> ""]

\* io::Error::kind() of an OS error
ErrorKind(errno) == IF errno = "EINVAL" THEN "InvalidInput" ELSE "Other"

OsError(errno) == [origin |-> "os", kind |-> ErrorKind(errno), text |-> errno]

LocalError(k, msg) == [origin |-> "local", kind |-> k, text |-> msg]

Errnos == {"EINVAL", "EIO"}

NoResult == [kind |-> "none", err |-> NoError]
Ok == [kind |-> "ok", err |-> NoError]
Err(e) == [kind |-> "err", err |-> e]
Panic(msg) == [kind |-> "panic", err |-> LocalError("panic", msg)]

\* ------------------------------------------------------------ control model
MenuTypes == {"Menu", "IntegerMenu"}
Types == {"Integer", "Boolean", "Menu", "IntegerMenu", "String", "Integer64"}

\* 0x00980900, 0x00980901 (user class) and 0x009A0900 (camera class)
CtrlIds == {U32(152, 2304), U32(152, 2305), U32(154, 2304)}

ZeroedQueryCtrl == [id |-> Zero32, typ |-> "Zeroed", minimum |-> 0, maximum |-> 0, step |-> 0]

NoItems == [some |-> FALSE, list |-> <<>>]
SomeItems(l) == [some |-> TRUE, list |-> l]

\* control::Description::from(v4l2_queryctrl): the fields copied, items: None
DescriptionFrom(q) ==
    [id |-> q.id, typ |-> q.typ, minimum |-> q.minimum, maximum |-> q.maximum,
     step |-> q.step, items |-> NoItems]

ZeroedDescription == DescriptionFrom(ZeroedQueryCtrl)

\* control::MenuItem::try_from((typ, v4l2_querymenu))
MenuItemTryFrom(typ, menu) ==
    IF typ = "Menu" THEN [ok |-> TRUE, item |-> [kind |-> "Name", of |-> menu.data]]
    ELSE IF typ = "IntegerMenu" THEN [ok |-> TRUE, item |-> [kind |-> "Value", of |-> menu.data]]
    ELSE [ok |-> FALSE, item |-> [kind |-> "None", of |-> 0]]

\* ------------------------------------------------------------- kernel calls
NoPayload == [which |-> Zero32, count |-> Zero32, controls |-> <<>>]

KCall(req, id, index, payload, ret) ==
    [req |-> req, id |-> id, index |-> index, payload |-> payload, ret |-> ret]

ZeroedControl == [id |-> Zero32, value |-> [tag |-> "None", int |-> 0, bool |-> FALSE, buf |-> <<>>]]

VARIABLES
    dev,          \* "none" | "alive" | "dropped" | "openfail": the Device value
    fdState,      \* "unopened" | "open" | "closed": the resource behind Handle.fd
    strong,       \* strong count of the Arc<Handle>
    clones,       \* handle references held outside the Device
    closeCalls,   \* number of v4l2::close calls made
    fatal,        \* a close failed and Handle::drop panicked
    closeRet,     \* what v4l2::close returned: "none" before it is called
    openRet,      \* what v4l2::open returned: "none" before it is called
    badCall,      \* a Device operation issued a call on a resource not open
    droppedInOp,  \* another holder dropped its reference before the operation in flight ended
    op,           \* the Device operation in flight, "none" when idle
    pc,           \* its position
    kcalls,       \* kernel calls the operation in flight has issued
    result,       \* its result once pc = "done"
    v4l2_ctrl,    \* query_controls: the cursor / last response
    controls,     \* query_controls: the descriptions collected
    control,      \* query_controls: the description being completed
    items,        \* query_controls: its menu items so far
    menuIt,       \* query_controls: the step_by iterator, <<next index>> or <<>>
    yielded,      \* the driver's successful next-control responses, in order
    served,       \* per pushed control, its item queries: <<index, served or not>>
    menuLog,      \* the same for the control being completed
    ctlId,        \* control(): its argument
    description,  \* control(): the description queried
    ctlRaw,       \* control(): the raw value the driver returned
    ctlRet,       \* control(): the Control returned
    ctrl,         \* set_control: its argument
    ctrls,        \* set_controls: its argument
    request,      \* set_controls: the v4l2_ext_controls marshalled
    nbytes        \* read/write: the count returned

lifeVars == <<dev, fdState, strong, clones, closeCalls, fatal, closeRet, openRet>>
qcVars == <<v4l2_ctrl, controls, control, items, menuIt, yielded, served, menuLog>>
ctlVars == <<ctlId, description, ctlRaw, ctlRet>>
scVars == <<ctrl, ctrls, request>>
opVars == <<op, pc, kcalls, result>>
ghostVars == <<badCall, droppedInOp>>
vars == <<lifeVars, ghostVars, opVars, qcVars, ctlVars, scVars, nbytes>>

\* ---------------------------------------------------------------- lifecycle
\* Arc<Handle>: the Handle is dropped when the count left after a drop is zero
ReleasesResourceOnAnyDrop(left) == TRUE
ReleasesResource(left) == left = 0

\* what v4l2::close gives
CloseReturns == {"ok", "err"}

\* .unwrap() on the close result: an error panics
UnwrapSwallows(ret) == FALSE
UnwrapPanics(ret) == ret # "ok"

\* impl Drop for Handle: v4l2::close(self.fd).unwrap()
HandleDrop ==
    \E ret \in CloseReturns :
        /\ closeCalls' = closeCalls + 1
        /\ fdState' = "closed"
        /\ closeRet' = ret
        /\ fatal' = (fatal \/ UnwrapPanics(ret))

\* one reference to the Handle goes away
ArcDrop ==
    /\ strong' = strong - 1
    /\ IF ReleasesResource(strong - 1)
       THEN HandleDrop
       ELSE UNCHANGED <<fdState, closeCalls, fatal, closeRet>>

\* self.handle().fd() inside a call statement: a temporary reference taken
\* before the call and dropped after it
TempHandle ==
    /\ strong' = (strong + 1) - 1
    /\ IF ReleasesResource((strong + 1) - 1)
       THEN HandleDrop
       ELSE UNCHANGED <<fdState, closeCalls, fatal, closeRet>>

IdleLocals ==
    /\ op' = "none" /\ pc' = "idle" /\ kcalls' = <<>> /\ result' = NoResult
    /\ v4l2_ctrl' = ZeroedQueryCtrl /\ controls' = <<>> /\ control' = ZeroedDescription
    /\ items' = <<>> /\ menuIt' = <<>> /\ yielded' = <<>> /\ served' = <<>> /\ menuLog' = <<>>
    /\ ctlId' = Zero32 /\ description' = ZeroedDescription /\ ctlRaw' = Zero32
    /\ ctlRet' = ZeroedControl
    /\ ctrl' = ZeroedControl /\ ctrls' = <<>> /\ request' = NoPayload
    /\ nbytes' = 0

Init ==
    /\ dev = "none" /\ fdState = "unopened" /\ strong = 0 /\ clones = 0
    /\ closeCalls = 0 /\ fatal = FALSE /\ badCall = FALSE /\ droppedInOp = FALSE
    /\ closeRet = "none" /\ openRet = "none"
    /\ op = "none" /\ pc = "idle" /\ kcalls = <<>> /\ result = NoResult
    /\ v4l2_ctrl = ZeroedQueryCtrl /\ controls = <<>> /\ control = ZeroedDescription
    /\ items = <<>> /\ menuIt = <<>> /\ yielded = <<>> /\ served = <<>> /\ menuLog = <<>>
    /\ ctlId = Zero32 /\ description = ZeroedDescription /\ ctlRaw = Zero32
    /\ ctlRet = ZeroedControl
    /\ ctrl = ZeroedControl /\ ctrls = <<>> /\ request = NoPayload
    /\ nbytes = 0

\* what v4l2::open gives: an error, the invalid descriptor -1, or a descriptor
OpenOutcomes == {"err", "minus1", "fd"}

\* the error of the open wrapper, which reports failures the OS-standard way
V4l2OpenError == OsError("ENOENT")

\* io::Error::last_os_error()
LastOsError == OsError("ENOENT")

\* v4l2::open(..)? returns on an error, and fd == -1 returns last_os_error()
OpenFailedOnErrOnly(outcome) == outcome = "err"
OpenFailed(outcome) == outcome = "err" \/ outcome = "minus1"

\* the body shared by Device::new and Device::with_path
OpenDevice(outcome) ==
    /\ dev = "none" /\ ~fatal
    /\ openRet' = outcome
    /\ IF OpenFailed(outcome)
       THEN /\ dev' = "openfail" /\ fdState' = fdState /\ strong' = strong
            /\ result' = Err(IF outcome = "err" THEN V4l2OpenError ELSE LastOsError)
       ELSE /\ dev' = "alive" /\ strong' = 1
            /\ fdState' = "open"
            /\ result' = Ok
    /\ UNCHANGED <<clones, closeCalls, fatal, closeRet, ghostVars, op, pc, kcalls, qcVars,
                   ctlVars, scVars, nbytes>>

Device_new == \E outcome \in OpenOutcomes : OpenDevice(outcome)

Device_with_path == \E outcome \in OpenOutcomes : OpenDevice(outcome)

\* Device::handle(), its result kept by another component
Device_handle ==
    /\ dev = "alive" /\ ~fatal
    /\ op \notin {"read", "write"}
    /\ clones < MaxClones
    /\ clones' = clones + 1
    /\ strong' = strong + 1
    /\ UNCHANGED <<dev, fdState, closeCalls, fatal, closeRet, openRet, ghostVars, opVars,
                   qcVars, ctlVars, scVars, nbytes>>

\* another component drops its Arc<Handle>
drop_clone ==
    /\ clones > 0 /\ ~fatal
    /\ clones' = clones - 1
    /\ ArcDrop
    /\ droppedInOp' = (droppedInOp \/ (op # "none" /\ pc # "done"))
    /\ UNCHANGED <<dev, openRet, badCall, opVars, qcVars, ctlVars, scVars, nbytes>>

\* the Device is dropped; no operation borrows it
drop_device ==
    /\ dev = "alive" /\ ~fatal
    /\ op = "none"
    /\ dev' = "dropped"
    /\ ArcDrop
    /\ UNCHANGED <<clones, openRet, ghostVars, opVars, qcVars, ctlVars, scVars, nbytes>>

\* the caller takes the result; the operation's locals are gone
op_return ==
    /\ pc = "done" /\ ~fatal
    /\ IdleLocals
    /\ droppedInOp' = FALSE
    /\ UNCHANGED <<lifeVars, badCall>>

\* a call on self.handle().fd(): the call is recorded, and flagged when the
\* resource is not open at the time it is issued
Ioctl(call) ==
    /\ kcalls' = Append(kcalls, call)
    /\ badCall' = (badCall \/ fdState # "open")
    /\ TempHandle
    /\ UNCHANGED <<dev, clones, openRet, droppedInOp>>

CanStart == dev = "alive" /\ ~fatal /\ op = "none" /\ pc = "idle"

\* ------------------------------------------------- query_caps, read, write
query_caps_begin ==
    /\ CanStart
    /\ op' = "query_caps" /\ pc' = "caps_ioctl"
    /\ UNCHANGED <<lifeVars, ghostVars, kcalls, result, qcVars, ctlVars, scVars, nbytes>>

\* the VIDIOC_QUERYCAP call and the `?` on it
query_caps_ioctl(ret) ==
    /\ op = "query_caps" /\ pc = "caps_ioctl" /\ ~fatal
    /\ Ioctl(KCall("VIDIOC_QUERYCAP", Zero32, Zero32, NoPayload, ret))
    /\ result' = IF ret = "ok" THEN Ok ELSE Err(OsError(ret))
    /\ pc' = "done"
    /\ UNCHANGED <<op, qcVars, ctlVars, scVars, nbytes>>

\* what libc::read / libc::write return: -1 or a byte count
RwReturns == {-1, 0, 1}

read_begin ==
    /\ CanStart
    /\ op' = "read" /\ pc' = "rw_call"
    /\ UNCHANGED <<lifeVars, ghostVars, kcalls, result, qcVars, ctlVars, scVars, nbytes>>

write_begin ==
    /\ CanStart
    /\ op' = "write" /\ pc' = "rw_call"
    /\ UNCHANGED <<lifeVars, ghostVars, kcalls, result, qcVars, ctlVars, scVars, nbytes>>

\* libc::read / libc::write on the descriptor, and the match on the return
rw_call(ret) ==
    /\ op \in {"read", "write"} /\ pc = "rw_call" /\ ~fatal
    /\ Ioctl(KCall(op, Zero32, Zero32, NoPayload, IF ret = -1 THEN "EIO" ELSE "ok"))
    /\ IF ret = -1
       THEN result' = Err(OsError("EIO")) /\ nbytes' = 0
       ELSE result' = Ok /\ nbytes' = ret
    /\ pc' = "done"
    /\ UNCHANGED <<op, qcVars, ctlVars, scVars>>

IoctlReturns == {"ok"} \cup Errnos

\* ------------------------------------------------------------ query_controls
\* control.typ == Type::Menu || control.typ == Type::IntegerMenu
IsMenuOnlyMenu(typ) == typ = "Menu"
IsMenu(typ) == typ \in MenuTypes

\* (minimum..=maximum).step_by(step as usize): step_by panics on a zero step
StepByPanics(step) == step = 0

\* the iterator's first element
StepByFirst(minimum, maximum) == IF minimum <= maximum THEN <<minimum>> ELSE <<>>

\* the element after i; a negative step is, as usize, beyond every i32 distance
StepByNext(i, maximum, step) ==
    IF step < 0 THEN <<>>
    ELSE IF i + step <= maximum THEN <<i + step>> ELSE <<>>

\* controls.push(control)
PushControlFront(cs, c) == <<c>> \o cs
PushControl(cs, c) == Append(cs, c)

\* if res.is_err() { continue; }: the loop goes on with the next index
ItemFailureBreaks(next) == <<>>
ItemFailureContinues(next) == next

\* items.push((v4l2_menu.index, item))
ItemsAfter(its, index, item) == Append(its, <<index, item>>)

\* the Err(e) arm of the next-control query
EnumerationEndsEmptyOk(cs, e) ==
    IF e.kind # "InvalidInput" THEN Err(e) ELSE Ok
EnumerationEndsAnyKind(cs, e) ==
    IF cs = <<>> THEN Err(e) ELSE Ok
EnumerationEnds(cs, e) ==
    IF cs = <<>> \/ e.kind # "InvalidInput" THEN Err(e) ELSE Ok

\* the cursor id as sent: id |= NEXT_CTRL; id |= NEXT_COMPOUND
NextCtrlId(id) == OrHiBit(OrHiBit(id, V4L2_CTRL_FLAG_NEXT_CTRL), V4L2_CTRL_FLAG_NEXT_COMPOUND)

query_controls_begin ==
    /\ CanStart
    /\ op' = "query_controls" /\ pc' = "qc_loop"
    /\ controls' = <<>> /\ v4l2_ctrl' = ZeroedQueryCtrl
    /\ UNCHANGED <<lifeVars, ghostVars, kcalls, result, control, items, menuIt, yielded,
                   served, menuLog, ctlVars, scVars, nbytes>>

\* the next-control query succeeds with the raw description q
qc_next_ok(q) ==
    /\ op = "query_controls" /\ pc = "qc_loop" /\ ~fatal
    /\ Len(yielded) < MaxControls
    /\ Ioctl(KCall("VIDIOC_QUERYCTRL", NextCtrlId(v4l2_ctrl.id), Zero32, NoPayload, "ok"))
    /\ v4l2_ctrl' = q
    /\ yielded' = Append(yielded, q)
    /\ LET d == DescriptionFrom(q)
           first == StepByFirst(q.minimum, q.maximum)
           empty == [d EXCEPT !.items = SomeItems(<<>>)]
       IN  IF ~IsMenu(d.typ)
           THEN /\ control' = d
                /\ controls' = PushControl(controls, d)
                /\ served' = Append(served, <<>>)
                /\ UNCHANGED <<pc, result, items, menuIt, menuLog>>
           ELSE IF StepByPanics(q.step)
           THEN /\ control' = d
                /\ result' = Panic("step_by: zero step")
                /\ pc' = "done"
                /\ UNCHANGED <<controls, served, items, menuIt, menuLog>>
           ELSE IF first = <<>>
           THEN /\ control' = empty
                /\ controls' = PushControl(controls, empty)
                /\ served' = Append(served, <<>>)
                /\ items' = <<>>
                /\ UNCHANGED <<pc, result, menuIt, menuLog>>
           ELSE /\ control' = d
                /\ items' = <<>> /\ menuIt' = first /\ menuLog' = <<>>
                /\ pc' = "qc_menu"
                /\ UNCHANGED <<controls, served, result>>
    /\ UNCHANGED <<op, ctlVars, scVars, nbytes>>

\* the next-control query fails
qc_next_err(errno) ==
    /\ op = "query_controls" /\ pc = "qc_loop" /\ ~fatal
    /\ Ioctl(KCall("VIDIOC_QUERYCTRL", NextCtrlId(v4l2_ctrl.id), Zero32, NoPayload, errno))
    /\ v4l2_ctrl' = [v4l2_ctrl EXCEPT !.id = NextCtrlId(v4l2_ctrl.id)]
    /\ result' = EnumerationEnds(controls, OsError(errno))
    /\ pc' = "done"
    /\ UNCHANGED <<op, controls, control, items, menuIt, yielded, served, menuLog, ctlVars,
                   scVars, nbytes>>

\* the rest of one round of the item loop: the iterator advances, and at its end
\* control.items = Some(items) and the control is pushed
MenuAdvance(newItems, newLog, next) ==
    /\ items' = newItems
    /\ menuLog' = newLog
    /\ menuIt' = next
    /\ IF next = <<>>
       THEN /\ control' = [control EXCEPT !.items = SomeItems(newItems)]
            /\ controls' = PushControl(controls, control')
            /\ served' = Append(served, newLog)
            /\ pc' = "qc_loop"
       ELSE UNCHANGED <<control, controls, served, pc>>

\* the item query for the index at hand succeeds, the driver filling in data
qc_menu_ok(data) ==
    /\ op = "query_controls" /\ pc = "qc_menu" /\ ~fatal
    /\ LET i == Head(menuIt)
           menu == [id |-> v4l2_ctrl.id, index |-> AsU32(i), data |-> data]
           conv == MenuItemTryFrom(control.typ, menu)
       IN  /\ Ioctl(KCall("VIDIOC_QUERYMENU", menu.id, menu.index, NoPayload, "ok"))
           /\ IF conv.ok
              THEN /\ MenuAdvance(ItemsAfter(items, menu.index, conv.item), Append(menuLog, <<i, TRUE>>),
                                  StepByNext(i, v4l2_ctrl.maximum, v4l2_ctrl.step))
                   /\ UNCHANGED result
              ELSE /\ result' = Panic("unwrap on Err")
                   /\ pc' = "done"
                   /\ UNCHANGED <<items, menuLog, menuIt, control, controls, served>>
    /\ UNCHANGED <<op, v4l2_ctrl, yielded, ctlVars, scVars, nbytes>>

\* the item query for the index at hand fails: the index is skipped
qc_menu_err(errno) ==
    /\ op = "query_controls" /\ pc = "qc_menu" /\ ~fatal
    /\ LET i == Head(menuIt)
       IN  /\ Ioctl(KCall("VIDIOC_QUERYMENU", v4l2_ctrl.id, AsU32(i), NoPayload, errno))
           /\ MenuAdvance(items, Append(menuLog, <<i, FALSE>>),
                          ItemFailureContinues(StepByNext(i, v4l2_ctrl.maximum, v4l2_ctrl.step)))
    /\ UNCHANGED <<op, result, v4l2_ctrl, yielded, ctlVars, scVars, nbytes>>

\* ------------------------------------------------------ the simulated driver
QueryCtrl(id, typ, r) ==
    [id |-> id, typ |-> typ, minimum |-> r[1], maximum |-> r[2], step |-> r[3]]

\* (minimum, maximum, step) a driver reports for a menu: stepped, empty,
\* starting below zero, with a negative and with a zero step
MenuRanges == {<<0, 2, 2>>, <<1, 0, 1>>, <<-1, 0, 1>>, <<0, 1, -1>>, <<0, 1, 0>>}
PlainRange == <<0, 255, 1>>

\* one id of the user class and one of the camera class
QcIds == {U32(152, 2304), U32(154, 2304)}

\* every plain type on both ids; a Menu of the user class and an IntegerMenu of
\* the camera class, each with every range
DriverControls ==
    {QueryCtrl(id, typ, PlainRange) : id \in QcIds, typ \in Types \ MenuTypes}
    \cup {QueryCtrl(U32(152, 2304), "Menu", r) : r \in MenuRanges}
    \cup {QueryCtrl(U32(154, 2304), "IntegerMenu", r) : r \in MenuRanges}

\* what the driver writes into a menu item
MenuData == {7}

\* ------------------------------------------------------------------ control
Integer(v) == [tag |-> "Integer", int |-> v, bool |-> FALSE, buf |-> <<>>]
Boolean(b) == [tag |-> "Boolean", int |-> 0, bool |-> b, buf |-> <<>>]
Buffer(tag, b) == [tag |-> tag, int |-> 0, bool |-> FALSE, buf |-> b]
None == [tag |-> "None", int |-> 0, bool |-> FALSE, buf |-> <<>>]

\* Value::Boolean(v4l2_ctrl.value == 1)
BooleanFromRawNonZero(raw) == raw # Zero32
BooleanFromRaw(raw) == raw = U32(0, 1)

\* the match on description.typ, on the raw 32-bit value the driver returned
ControlValueAnyType(typ, raw) ==
    IF typ = "Boolean" THEN [ok |-> TRUE, value |-> Boolean(BooleanFromRaw(raw))]
    ELSE [ok |-> TRUE, value |-> Integer(AsI64(raw))]
ControlValue(typ, raw) ==
    IF typ \in {"Integer", "Integer64"} THEN [ok |-> TRUE, value |-> Integer(AsI64(raw))]
    ELSE IF typ = "Boolean" THEN [ok |-> TRUE, value |-> Boolean(BooleanFromRaw(raw))]
    ELSE [ok |-> FALSE, value |-> None]

\* the `?` after a kernel call: an error returns, success goes on
TryIgnored(ret, next) == next
Try(ret, next) == IF ret = "ok" THEN next ELSE "done"

control_begin(id) ==
    /\ CanStart
    /\ op' = "control" /\ pc' = "ctl_queryctrl"
    /\ ctlId' = id
    /\ UNCHANGED <<lifeVars, ghostVars, kcalls, result, qcVars, description, ctlRaw, ctlRet,
                   scVars, nbytes>>

\* the description query by id succeeds: the driver reports the type
control_queryctrl_ok(typ) ==
    /\ op = "control" /\ pc = "ctl_queryctrl" /\ ~fatal
    /\ Ioctl(KCall("VIDIOC_QUERYCTRL", ctlId, Zero32, NoPayload, "ok"))
    /\ description' = DescriptionFrom(QueryCtrl(ctlId, typ, <<0, 255, 1>>))
    /\ pc' = Try("ok", "ctl_g_ctrl")
    /\ UNCHANGED <<op, result, qcVars, ctlId, ctlRaw, ctlRet, scVars, nbytes>>

\* the description query fails: the `?` returns its error
control_queryctrl_err(errno) ==
    /\ op = "control" /\ pc = "ctl_queryctrl" /\ ~fatal
    /\ Ioctl(KCall("VIDIOC_QUERYCTRL", ctlId, Zero32, NoPayload, errno))
    /\ result' = Err(OsError(errno))
    /\ pc' = Try(errno, "ctl_g_ctrl")
    /\ UNCHANGED <<op, qcVars, ctlVars, scVars, nbytes>>

\* the value query succeeds with the raw value
control_g_ctrl_ok(raw) ==
    /\ op = "control" /\ pc = "ctl_g_ctrl" /\ ~fatal
    /\ Ioctl(KCall("VIDIOC_G_CTRL", ctlId, Zero32, NoPayload, "ok"))
    /\ ctlRaw' = raw
    /\ LET v == ControlValue(description.typ, raw)
       IN  IF v.ok
           THEN result' = Ok /\ ctlRet' = [id |-> ctlId, value |-> v.value]
           ELSE /\ result' = Err(LocalError("Other", "cannot handle control type"))
                /\ UNCHANGED ctlRet
    /\ pc' = "done"
    /\ UNCHANGED <<op, qcVars, ctlId, description, scVars, nbytes>>

\* the value query fails: the `?` returns its error
control_g_ctrl_err(errno) ==
    /\ op = "control" /\ pc = "ctl_g_ctrl" /\ ~fatal
    /\ Ioctl(KCall("VIDIOC_G_CTRL", ctlId, Zero32, NoPayload, errno))
    /\ result' = Err(OsError(errno))
    /\ pc' = "done"
    /\ UNCHANGED <<op, qcVars, ctlVars, scVars, nbytes>>

\* raw values: 0, 1, 2, 65537, i32::MAX, i32::MIN, -2, -1
RawValues == {U32(0, 0), U32(0, 1), U32(0, 2), U32(1, 1), U32(32767, 65535),
              U32(32768, 0), U32(65535, 65534), U32(65535, 65535)}

\* ------------------------------------------------------------- set_controls
ZeroedExtControl == [id |-> Zero32, size |-> Zero32, value64 |-> 0, ptr |-> <<>>]

\* std::mem::size_of of the element type of each buffer variant
ElemSizeOne(tag) == 1
ElemSize(tag) ==
    CASE tag = "CompoundU16" -> 2
      [] tag = "CompoundU32" -> 4
      [] OTHER -> 1

\* the match on ctrl.value: the entry's payload and size
MarshalControl(c) ==
    LET v == c.value
        e == [ZeroedExtControl EXCEPT !.id = c.id]
    IN  CASE v.tag = "None" -> e
          [] v.tag = "Integer" -> [e EXCEPT !.value64 = v.int, !.size = AsU32(8)]
          [] v.tag = "Boolean" ->
                [e EXCEPT !.value64 = IF v.bool THEN 1 ELSE 0, !.size = AsU32(8)]
          [] v.tag = "String" -> [e EXCEPT !.ptr = v.buf, !.size = AsU32(Len(v.buf))]
          [] v.tag = "CompoundU8" ->
                [e EXCEPT !.ptr = v.buf, !.size = AsU32(Len(v.buf) * ElemSize(v.tag))]
          [] v.tag = "CompoundU16" ->
                [e EXCEPT !.ptr = v.buf, !.size = AsU32(Len(v.buf) * ElemSize(v.tag))]
          [] v.tag = "CompoundU32" ->
                [e EXCEPT !.ptr = v.buf, !.size = AsU32(Len(v.buf) * ElemSize(v.tag))]
          [] v.tag = "CompoundPtr" ->
                [e EXCEPT !.ptr = v.buf, !.size = AsU32(Len(v.buf) * ElemSize(v.tag))]

\* if count == 0
IsEmptyBatchNever(count) == FALSE
IsEmptyBatch(count) == count = Zero32

\* the empty-batch return
EmptyBatchNoOp == Ok
EmptyBatchResult == Err(LocalError("InvalidInput", "ctrls cannot be empty"))

\* control.id & 0xFFFF0000
ControlClassByte(id) == U32((id.hi \div 256) * 256, 0)
ControlClass(id) == U32(id.hi, 0)

\* control_list.push(control)
ListPushFront(list, e) == <<e>> \o list
ListPush(list, e) == Append(list, e)

\* the for loop from control i on: class is <<>> (None) or <<c>> (Some(c))
RECURSIVE MarshalFrom(_, _, _, _)
MarshalFrom(cs, i, class, list) ==
    IF i > Len(cs)
    THEN [result |-> Ok, class |-> class, list |-> list]
    ELSE IF class # <<>> /\ class[1] # ControlClass(cs[i].id)
    THEN [result |-> Err(LocalError("InvalidInput", "All controls must be in the same class")),
          class |-> class, list |-> list]
    ELSE MarshalFrom(cs, i + 1, <<ControlClass(cs[i].id)>>, ListPush(list, MarshalControl(cs[i])))

\* set_controls up to its kernel call: the error returned, or the request built
SetControlsPrepare(cs) ==
    LET count == AsU32(Len(cs))
        m == MarshalFrom(cs, 1, <<>>, <<>>)
    IN  IF IsEmptyBatch(count)
        THEN [result |-> EmptyBatchResult, request |-> NoPayload]
        ELSE IF m.result.kind = "err"
        THEN [result |-> m.result, request |-> NoPayload]
        ELSE IF m.class = <<>>
        THEN [result |-> Err(LocalError("InvalidInput", "failed to determine control class")),
              request |-> NoPayload]
        ELSE [result |-> Ok,
              request |-> [which |-> m.class[1], count |-> count, controls |-> m.list]]

SetControlsBody(cs) ==
    /\ ctrls' = cs
    /\ LET p == SetControlsPrepare(cs)
       IN  IF p.result.kind = "err"
           THEN result' = p.result /\ pc' = "done" /\ UNCHANGED request
           ELSE request' = p.request /\ pc' = "sc_ioctl" /\ UNCHANGED result
    /\ UNCHANGED <<lifeVars, ghostVars, kcalls, qcVars, ctlVars, nbytes>>

set_controls_begin(cs) ==
    /\ CanStart
    /\ op' = "set_controls"
    /\ SetControlsBody(cs)
    /\ UNCHANGED ctrl

\* vec![ctrl]
VecOfTwice(c) == <<c, c>>
VecOf(c) == <<c>>

\* set_control(ctrl): self.set_controls(vec![ctrl])
set_control(c) ==
    /\ CanStart
    /\ op' = "set_control"
    /\ ctrl' = c
    /\ SetControlsBody(VecOf(c))

\* the one VIDIOC_S_EXT_CTRLS call, whose result is the function's
set_controls_ioctl(ret) ==
    /\ op \in {"set_controls", "set_control"} /\ pc = "sc_ioctl" /\ ~fatal
    /\ Ioctl(KCall("VIDIOC_S_EXT_CTRLS", Zero32, Zero32, request, ret))
    /\ result' = IF ret = "ok" THEN Ok ELSE Err(OsError(ret))
    /\ pc' = "done"
    /\ UNCHANGED <<op, qcVars, ctlVars, scVars, nbytes>>

\* the values a caller passes
Values == {None, Integer(-1), Integer(5), Boolean(TRUE), Boolean(FALSE),
           Buffer("String", <<97, 98>>), Buffer("CompoundU8", <<1>>),
           Buffer("CompoundU16", <<1, 2>>), Buffer("CompoundU32", <<7>>),
           Buffer("CompoundPtr", <<1, 2, 3>>)}

\* every value on one id, and two values on every id
Controls ==
    [id : {U32(152, 2304)}, value : Values] \cup [id : CtrlIds, value : {None, Integer(5)}]

Batches(S, n) == UNION {[1..k -> S] : k \in 0..n}

\* ----------------------------------------------------------- specifications
\* the inputs of the whole-program specification: one plain control, one menu,
\* one menu with a zero step; two controls of different classes
SpecDriverControls ==
    {QueryCtrl(U32(152, 2304), "Integer", PlainRange),
     QueryCtrl(U32(154, 2304), "Menu", <<0, 1, 1>>),
     QueryCtrl(U32(154, 2304), "IntegerMenu", <<0, 1, 0>>)}

SpecControls ==
    {[id |-> U32(152, 2304), value |-> Boolean(TRUE)],
     [id |-> U32(154, 2304), value |-> Integer(5)]}

Next ==
    \/ Device_new
    \/ Device_with_path
    \/ Device_handle
    \/ drop_clone
    \/ drop_device
    \/ op_return
    \/ query_caps_begin
    \/ \E ret \in IoctlReturns : query_caps_ioctl(ret)
    \/ read_begin
    \/ write_begin
    \/ \E ret \in RwReturns : rw_call(ret)
    \/ query_controls_begin
    \/ \E q \in SpecDriverControls : qc_next_ok(q)
    \/ \E errno \in Errnos : qc_next_err(errno)
    \/ \E data \in MenuData : qc_menu_ok(data)
    \/ \E errno \in Errnos : qc_menu_err(errno)
    \/ \E id \in QcIds : control_begin(id)
    \/ \E typ \in {"Boolean", "String"} : control_queryctrl_ok(typ)
    \/ \E errno \in Errnos : control_queryctrl_err(errno)
    \/ \E raw \in {U32(0, 1), U32(0, 2)} : control_g_ctrl_ok(raw)
    \/ \E errno \in Errnos : control_g_ctrl_err(errno)
    \/ CanStart /\ \E cs \in Batches(SpecControls, MaxBatch) : set_controls_begin(cs)
    \/ \E c \in SpecControls : set_control(c)
    \/ \E ret \in IoctlReturns : set_controls_ioctl(ret)

Spec == Init /\ [][Next]_vars

\* a Device just opened, idle, its Handle referenced by it alone
InitOpen ==
    /\ dev = "alive" /\ fdState = "open" /\ strong = 1 /\ clones = 0
    /\ closeCalls = 0 /\ fatal = FALSE /\ badCall = FALSE /\ droppedInOp = FALSE
    /\ closeRet = "none" /\ openRet = "fd"
    /\ op = "none" /\ pc = "idle" /\ kcalls = <<>> /\ result = NoResult
    /\ v4l2_ctrl = ZeroedQueryCtrl /\ controls = <<>> /\ control = ZeroedDescription
    /\ items = <<>> /\ menuIt = <<>> /\ yielded = <<>> /\ served = <<>> /\ menuLog = <<>>
    /\ ctlId = Zero32 /\ description = ZeroedDescription /\ ctlRaw = Zero32
    /\ ctlRet = ZeroedControl
    /\ ctrl = ZeroedControl /\ ctrls = <<>> /\ request = NoPayload
    /\ nbytes = 0

\* query_controls against every driver response
NextQueryControls ==
    \/ query_controls_begin
    \/ \E q \in DriverControls : qc_next_ok(q)
    \/ \E errno \in Errnos : qc_next_err(errno)
    \/ \E data \in MenuData : qc_menu_ok(data)
    \/ \E errno \in Errnos : qc_menu_err(errno)
    \/ op_return

SpecQueryControls == InitOpen /\ [][NextQueryControls]_vars

\* control(id) against every declared type and raw value
NextControl ==
    \/ \E id \in CtrlIds : control_begin(id)
    \/ \E typ \in Types : control_queryctrl_ok(typ)
    \/ \E errno \in Errnos : control_queryctrl_err(errno)
    \/ \E raw \in RawValues : control_g_ctrl_ok(raw)
    \/ \E errno \in Errnos : control_g_ctrl_err(errno)
    \/ op_return

SpecControl == InitOpen /\ [][NextControl]_vars

\* set_controls and set_control on every batch of up to MaxBatch controls
NextSetControls ==
    \/ CanStart /\ \E cs \in Batches(Controls, MaxBatch) : set_controls_begin(cs)
    \/ \E c \in Controls : set_control(c)
    \/ \E ret \in IoctlReturns : set_controls_ioctl(ret)
    \/ op_return

SpecSetControls == InitOpen /\ [][NextSetControls]_vars

\* ------------------------------------------------------------------- claims
Last(seq) == seq[Len(seq)]

Holders == (IF dev = "alive" THEN 1 ELSE 0) + clones

\* C1: the resource is closed zero times while the Device or any handle clone
\* remains, and exactly once, never twice, once the last holder is dropped.
C1_ClosedOnceByLastHolder ==
    /\ closeCalls <= 1
    /\ Holders > 0 => (closeCalls = 0 /\ fdState = "open")
    /\ (dev = "dropped" /\ clones = 0) => (closeCalls = 1 /\ fdState = "closed")

C1_Witness == dev = "dropped" /\ clones = 0 /\ closeCalls = 1 /\ fdState = "closed"

\* C2: under every interleaving of Device operations with drops of other
\* handle clones, each call an operation issues finds the resource open; an
\* operation in flight implies a live Device and an open resource.
C2_CallsOnOpenResource ==
    /\ ~badCall
    /\ op # "none" => (dev = "alive" /\ fdState = "open" /\ closeCalls = 0)

C2_Witness ==
    /\ op = "set_controls" /\ droppedInOp /\ clones = 0
    /\ Len(kcalls) = 1 /\ fdState = "open"

\* two controls of the batch differ in the upper 16 bits of their ids
MixedClass(cs) == \E i, j \in 1..Len(cs) : cs[i].id.hi # cs[j].id.hi

InvalidInput(r) == r.kind = "err" /\ r.err.kind = "InvalidInput"

\* C3: set_controls on a batch holding two controls of different classes, at
\* any positions, fails with invalid-input and issues no kernel call.
C3_MixedClassRejected ==
    (op = "set_controls" /\ MixedClass(ctrls)) =>
        (pc = "done" /\ InvalidInput(result) /\ kcalls = <<>>)

C3_Witness ==
    /\ op = "set_controls" /\ pc = "done" /\ Len(ctrls) = MaxBatch
    /\ ctrls[1].id.hi # ctrls[MaxBatch].id.hi
    /\ \A i \in 1..(MaxBatch - 1) : ctrls[i].id.hi = ctrls[1].id.hi

\* C4: set_controls on an empty batch fails with invalid-input and issues no
\* kernel call.
C4_EmptyBatchRejected ==
    (op = "set_controls" /\ ctrls = <<>>) =>
        (pc = "done" /\ InvalidInput(result) /\ kcalls = <<>>)

C4_Witness == op = "set_controls" /\ ctrls = <<>> /\ pc = "done"

\* C5: on a non-empty batch of one class set_controls issues exactly one
\* set-extended-controls call, carrying every entry in input order, count the
\* batch length and which the shared class, and returns that call's result.
C5_OneBatchedCall ==
    (op = "set_controls" /\ ctrls # <<>> /\ ~MixedClass(ctrls)) =>
        /\ pc \in {"sc_ioctl", "done"}
        /\ pc = "sc_ioctl" => kcalls = <<>>
        /\ pc = "done" =>
            /\ Len(kcalls) = 1
            /\ kcalls[1].req = "VIDIOC_S_EXT_CTRLS"
            /\ kcalls[1].payload.count = U32(0, Len(ctrls))
            /\ kcalls[1].payload.which = U32(ctrls[1].id.hi, 0)
            /\ Len(kcalls[1].payload.controls) = Len(ctrls)
            /\ \A i \in 1..Len(ctrls) : kcalls[1].payload.controls[i].id = ctrls[i].id
            /\ result = IF kcalls[1].ret = "ok" THEN Ok ELSE Err(OsError(kcalls[1].ret))

C5_Witness ==
    /\ op = "set_controls" /\ pc = "done" /\ Len(ctrls) = 2
    /\ ctrls[1].id = U32(152, 2304) /\ ctrls[1].value = Boolean(TRUE)
    /\ ctrls[2].id = U32(152, 2305) /\ ctrls[2].value = Integer(5)
    /\ Len(kcalls) = 1 /\ result = Ok

\* the first next-control query of the call in flight failed with EINVAL
FirstQueryInvalid ==
    /\ op = "query_controls" /\ pc = "done"
    /\ Len(kcalls) = 1 /\ kcalls[1].req = "VIDIOC_QUERYCTRL" /\ kcalls[1].ret = "EINVAL"

SameFields(d, q) ==
    /\ d.id = q.id /\ d.typ = q.typ
    /\ d.minimum = q.minimum /\ d.maximum = q.maximum /\ d.step = q.step

\* the traversal yielded at least one control and then failed with EINVAL
TraversalEnded ==
    /\ op = "query_controls" /\ pc = "done" /\ Len(yielded) >= 1
    /\ Last(kcalls).req = "VIDIOC_QUERYCTRL" /\ Last(kcalls).ret = "EINVAL"

\* C7: when the traversal yields k >= 1 controls and then fails with an
\* invalid-argument error, query_controls returns exactly the k descriptions
\* in the order the driver yielded them, whatever classes they span.
C7_DriverOrderKept ==
    TraversalEnded =>
        /\ result = Ok
        /\ Len(controls) = Len(yielded)
        /\ \A k \in 1..Len(yielded) : SameFields(controls[k], yielded[k])

C7_Witness ==
    /\ TraversalEnded /\ result = Ok /\ Len(yielded) = MaxControls
    /\ yielded[1].id.hi = 154 /\ yielded[MaxControls].id.hi = 152

\* the indices (minimum..=maximum).step_by(step) visits
Candidates(minimum, maximum, step) ==
    IF step > 0 THEN {i \in minimum..maximum : (i - minimum) % step = 0}
    ELSE IF step < 0 THEN {minimum} \cap (minimum..maximum)
    ELSE {}

\* the item list of a pushed menu control against the driver's answers
ItemsMatchLog(d, log) ==
    LET list == d.items.list
        okPos == {n \in 1..Len(log) : log[n][2]}
    IN  /\ \A n \in 1..(Len(log) - 1) : log[n][1] < log[n + 1][1]
        /\ {log[n][1] : n \in 1..Len(log)} = Candidates(d.minimum, d.maximum, d.step)
        /\ Len(list) = Cardinality(okPos)
        /\ \A n \in okPos :
              list[Cardinality({m \in okPos : m <= n})][1] = AsU32(log[n][1])
        /\ d.minimum >= 0 =>
              \A m, n \in 1..Len(list) : m < n => LessU32(list[m][1], list[n][1])

\* C8: for a menu control the item list holds exactly the candidate indices
\* whose item query succeeded, each tagged with its index, in ascending
\* order; every candidate is tried, and a failed item query neither ends the
\* enumeration nor becomes its result.
C8_TolerantMenuScan ==
    op = "query_controls" =>
        /\ \A k \in 1..Len(controls) :
              controls[k].typ \in MenuTypes => ItemsMatchLog(controls[k], served[k])
        /\ (kcalls # <<>> /\ Last(kcalls).req = "VIDIOC_QUERYMENU") =>
              (pc \in {"qc_menu", "qc_loop"} /\ result = NoResult)

C8_Witness ==
    /\ op = "query_controls" /\ pc = "done" /\ result = Ok
    /\ \E k \in 1..Len(controls) :
          /\ controls[k].typ \in MenuTypes
          /\ Len(served[k]) = 2 /\ ~served[k][1][2] /\ served[k][2][2]
          /\ Len(controls[k].items.list) = 1

\* C9: a Description of query_controls has an item list exactly when its type
\* is Menu or IntegerMenu, also when every item query failed or the range is
\* empty.
C9_ItemsIffMenu ==
    op = "query_controls" =>
        \A k \in 1..Len(controls) :
            controls[k].items.some <=> controls[k].typ \in {"Menu", "IntegerMenu"}

C9_Witness ==
    /\ op = "query_controls" /\ pc = "done" /\ result = Ok
    /\ \E j, k \in 1..Len(controls) :
          /\ controls[j].typ = "IntegerMenu" /\ controls[j].items.some
          /\ controls[j].items.list = <<>> /\ controls[j].minimum <= controls[j].maximum
          /\ controls[k].typ \notin MenuTypes /\ ~controls[k].items.some

\* both queries of control(id) succeeded
ValueFetched ==
    /\ op = "control" /\ pc = "done"
    /\ Len(kcalls) = 2 /\ kcalls[2].req = "VIDIOC_G_CTRL" /\ kcalls[2].ret = "ok"

\* C10: control(id) on a Boolean control gives Boolean(true) exactly when the
\* raw value is 1; on an Integer or Integer64 control it gives Integer of the
\* raw 32-bit value sign-extended.
C10_BooleanStrictIntegerSigned ==
    ValueFetched =>
        /\ description.typ = "Boolean" =>
              /\ result = Ok /\ ctlRet.id = ctlId /\ ctlRet.value.tag = "Boolean"
              /\ ctlRet.value.bool <=> (ctlRaw.hi = 0 /\ ctlRaw.lo = 1)
        /\ description.typ \in {"Integer", "Integer64"} =>
              /\ result = Ok /\ ctlRet.id = ctlId /\ ctlRet.value.tag = "Integer"
              /\ ctlRet.value.int >= -2147483647 - 1 /\ ctlRet.value.int <= 2147483647
              /\ ctlRet.value.int % Half = ctlRaw.lo
              /\ (ctlRet.value.int \div Half) % Half = ctlRaw.hi
              /\ ctlRet.value.int < 0 <=> ctlRaw.hi >= 32768

C10_Witness ==
    /\ ValueFetched /\ description.typ = "Boolean" /\ ctlRaw = U32(0, 2)
    /\ result = Ok /\ ctlRet.value = Boolean(FALSE)

\* ---- C11 ----
\* control(id) has learnt a declared type that is none of Integer, Integer64, Boolean
UnsupportedDeclared ==
    /\ op = "control" /\ pc = "done" /\ Len(kcalls) = 2
    /\ description.typ \notin {"Integer", "Integer64", "Boolean"}

UnsupportedTypeError == Err(LocalError("Other", "cannot handle control type"))

\* C11 as stated: control(id) on a control of an unsupported declared type
\* fails with the generic unsupported-type error whatever the driver answers
\* to the value query.
C11_Original == UnsupportedDeclared => result = UnsupportedTypeError

\* C11, amended: control(id) on a control of an unsupported declared type
\* fails with the generic unsupported-type error when the value query
\* succeeds, and with the value query's own OS error when that query fails.
C11_UnsupportedAfterValueQuery ==
    UnsupportedDeclared =>
        IF kcalls[2].ret = "ok"
        THEN result = UnsupportedTypeError
        ELSE result = Err(OsError(kcalls[2].ret))

C11_Witness ==
    /\ UnsupportedDeclared /\ description.typ = "String"
    /\ kcalls[2].ret = "ok" /\ result = UnsupportedTypeError

\* ---- C12 ----
\* what set_controls(cs) lets an observer see at the current state: the kernel
\* calls made so far, their payload, and the result
ObservedAsSetControls(cs) ==
    LET p == SetControlsPrepare(cs)
    IN  /\ ctrls = cs
        /\ IF p.result.kind = "err"
           THEN pc = "done" /\ kcalls = <<>> /\ result = p.result
           ELSE \/ pc = "sc_ioctl" /\ kcalls = <<>> /\ request = p.request
                \/ /\ pc = "done" /\ Len(kcalls) = 1
                   /\ kcalls[1].req = "VIDIOC_S_EXT_CTRLS"
                   /\ kcalls[1].payload = p.request
                   /\ result = IF kcalls[1].ret = "ok" THEN Ok
                               ELSE Err(OsError(kcalls[1].ret))

\* C12: set_control(c) shows an observer what set_controls([c]) shows: the
\* same kernel calls in the same order, the same payload and the same result.
C12_SetControlIsSingletonBatch ==
    /\ op = "set_control" => ObservedAsSetControls(<<ctrl>>)
    /\ op = "set_controls" => ObservedAsSetControls(ctrls)

C12_Witness ==
    /\ op = "set_control" /\ pc = "done" /\ ctrl.value = Buffer("CompoundU16", <<1, 2>>)
    /\ Len(kcalls) = 1 /\ kcalls[1].ret = "EIO"

\* ---- C13 ----
\* C13: when the close made on releasing the last handle reference fails, the
\* failure is fatal: the drop panics instead of returning as if the close had
\* succeeded, and a panic of the drop has no other cause.
C13_CloseFailureIsFatal ==
    /\ closeRet = "err" => (fatal /\ closeCalls = 1 /\ Holders = 0)
    /\ fatal => closeRet = "err"

C13_Witness == closeRet = "err" /\ fatal /\ dev = "dropped" /\ clones = 0

\* ---- C14 ----
\* C14: when open fails, by an error or by returning the invalid id -1,
\* Device::new and Device::with_path return an OS-level error, no Handle is
\* constructed and close is never called for that attempt.
C14_FailedOpenLeavesNothing ==
    openRet \in {"err", "minus1"} =>
        /\ dev = "openfail"
        /\ result.kind = "err" /\ result.err.origin = "os"
        /\ strong = 0 /\ clones = 0
        /\ closeCalls = 0 /\ closeRet = "none" /\ fdState = "unopened"
        /\ kcalls = <<>>

C14_Witness == openRet = "minus1" /\ dev = "openfail" /\ closeCalls = 0

\* ---- C15 ----
\* query_controls has ended on a 'next control' query that failed with errno
EndedOnFailure(errno) ==
    /\ op = "query_controls" /\ pc = "done" /\ kcalls # <<>>
    /\ Last(kcalls).req = "VIDIOC_QUERYCTRL" /\ Last(kcalls).ret = errno

\* C15: a 'next control' query that fails with an error other than invalid
\* argument makes query_controls return that error, however many controls it
\* has collected; the controls collected are not returned.
C15_OtherFailureIsError ==
    \A errno \in Errnos :
        (EndedOnFailure(errno) /\ ErrorKind(errno) # "InvalidInput") =>
            result = Err(OsError(errno))

C15_Witness ==
    /\ EndedOnFailure("EIO") /\ Len(controls) = MaxControls
    /\ result = Err(OsError("EIO"))

\* ---- C16 ----
\* C16: control(id) issues the description query first and the value query
\* second, each at most once; a failed description query is returned with no
\* value query issued; a failed value query is returned with no retry.
C16_DescriptionThenValue ==
    op = "control" =>
        /\ Len(kcalls) <= 2
        /\ pc = "ctl_queryctrl" => kcalls = <<>>
        /\ Len(kcalls) >= 1 =>
              kcalls[1].req = "VIDIOC_QUERYCTRL" /\ kcalls[1].id = ctlId
        /\ pc = "ctl_g_ctrl" => (Len(kcalls) = 1 /\ kcalls[1].ret = "ok")
        /\ Len(kcalls) = 2 =>
              /\ kcalls[1].ret = "ok"
              /\ kcalls[2].req = "VIDIOC_G_CTRL" /\ kcalls[2].id = ctlId
              /\ pc = "done"
        /\ (pc = "done" /\ Len(kcalls) = 1) =>
              (kcalls[1].ret # "ok" /\ result = Err(OsError(kcalls[1].ret)))
        /\ (pc = "done" /\ Len(kcalls) = 2 /\ kcalls[2].ret # "ok") =>
              result = Err(OsError(kcalls[2].ret))
        /\ pc = "done" => kcalls # <<>>

C16_Witness ==
    /\ op = "control" /\ pc = "done" /\ Len(kcalls) = 2
    /\ kcalls[2].ret = "EINVAL" /\ result = Err(OsError("EINVAL"))

\* ---- C17 ----
\* the 'next control' queries made so far, in order
QueryCtrlCalls == SelectSeq(kcalls, LAMBDA c : c.req = "VIDIOC_QUERYCTRL")

\* id with the next-control and next-compound flags (bits 31 and 30) set,
\* for an id that has neither
WithNextFlags(id) == U32(id.hi + 32768 + 16384, id.lo)

\* the cursor starts at 0 and every query carries the id of the previous
\* response with both flags set; only the last query made can have failed
CursorChain ==
    LET qs == QueryCtrlCalls
    IN  /\ \A n \in 1..Len(qs) :
              qs[n].id = WithNextFlags(IF n = 1 THEN Zero32 ELSE yielded[n - 1].id)
        /\ \A n \in 1..(Len(qs) - 1) : qs[n].ret = "ok"
        /\ Len(qs) \in {Len(yielded), Len(yielded) + 1}

\* query_controls is over after k successful queries and one failed query
EndedByFailedQuery ==
    LET qs == QueryCtrlCalls
    IN  /\ Len(qs) = Len(yielded) + 1
        /\ Last(qs).ret # "ok" /\ Last(kcalls) = Last(qs)
        /\ result.kind \in {"ok", "err"}

\* C17 as stated: the cursor of query_controls starts at id 0, each 'next
\* control' query carries the id of the previous successful response with the
\* next-control and next-compound flags set, and the loop is over only when a
\* 'next control' query has failed: after exactly k+1 queries for k controls,
\* and never while the driver keeps answering.
C17_Original ==
    op = "query_controls" =>
        /\ CursorChain
        /\ pc = "done" => EndedByFailedQuery

\* the same with the fault of the menu enumeration set aside
C17_ExceptZeroStep ==
    op = "query_controls" =>
        /\ CursorChain
        /\ (pc = "done" /\ result.kind # "panic") => EndedByFailedQuery
        /\ (pc = "done" /\ result.kind = "panic") =>
              (IsMenu(Last(yielded).typ) /\ Last(yielded).step = 0)

\* ---- C18 ----
\* C18 as stated: for a Menu or IntegerMenu control, whatever (minimum,
\* maximum, step) the driver reports, step = 0 and step < 0 included, the
\* enumeration of its items makes at most one item query per candidate index
\* and query_controls goes on to a result; it never faults.
C18_Original ==
    (op = "query_controls" /\ yielded # <<>> /\ IsMenu(Last(yielded).typ)) =>
        /\ result.kind # "panic"
        /\ pc = "qc_menu" =>
              /\ \A m, n \in 1..Len(menuLog) : m # n => menuLog[m][1] # menuLog[n][1]
              /\ \A n \in 1..Len(menuLog) :
                    menuLog[n][1] \in Last(yielded).minimum..Last(yielded).maximum

\* the fault: the zero step of a menu control ends query_controls in a panic
C18_ZeroStepPanics ==
    (op = "query_controls" /\ result.kind = "panic") =>
        /\ pc = "done" /\ IsMenu(Last(yielded).typ) /\ Last(yielded).step = 0
        /\ Last(kcalls).req = "VIDIOC_QUERYCTRL" /\ Last(kcalls).ret = "ok"

\* ---- C19 ----
SetOps == {"set_controls", "set_control"}

\* C19: set_controls never returns its 'failed to determine control class'
\* error: every batch ends in the empty-batch error, in the mixed-class error,
\* or at the kernel call with the class of the first control.
C19_ClassAlwaysDetermined ==
    op \in SetOps =>
        /\ result.err.text # "failed to determine control class"
        /\ (pc = "done" /\ kcalls = <<>>) =>
              \/ ctrls = <<>> /\ result.err.text = "ctrls cannot be empty"
              \/ /\ MixedClass(ctrls)
                 /\ result.err.text = "All controls must be in the same class"
        /\ (pc = "sc_ioctl" \/ kcalls # <<>>) =>
              /\ ctrls # <<>> /\ ~MixedClass(ctrls)
              /\ request.which = U32(ctrls[1].id.hi, 0)

C19_Witness ==
    /\ op = "set_controls" /\ pc = "done" /\ Len(ctrls) = MaxBatch /\ Len(kcalls) = 1
    /\ kcalls[1].payload.which = U32(154, 0)

\* ---- C20 ----
\* the size and scalar value entry i must carry for the value v
ExpectedSize(v) ==
    CASE v.tag = "None" -> 0
      [] v.tag \in {"Integer", "Boolean"} -> 8
      [] v.tag \in {"String", "CompoundU8", "CompoundPtr"} -> Len(v.buf)
      [] v.tag = "CompoundU16" -> 2 * Len(v.buf)
      [] v.tag = "CompoundU32" -> 4 * Len(v.buf)

ExpectedValue64(v) ==
    CASE v.tag = "Integer" -> v.int
      [] v.tag = "Boolean" -> IF v.bool THEN 1 ELSE 0
      [] OTHER -> 0

\* C20: in the request set_controls submits, entry i has the id of input
\* control i; Integer(v) is sent as value v with size 8, Boolean(b) as 1 or 0
\* with size 8, String, CompoundU8 and CompoundPtr with size = element count,
\* CompoundU16 with size = 2 * count, CompoundU32 with size = 4 * count; a
\* control with Value::None is included and counted, with value 0 and size 0.
C20_EntriesFollowVariants ==
    (op \in SetOps /\ kcalls # <<>>) =>
        LET sent == kcalls[1].payload
        IN  /\ Len(sent.controls) = Len(ctrls)
            /\ sent.count = U32(0, Len(ctrls))
            /\ \A i \in 1..Len(ctrls) :
                  /\ sent.controls[i].id = ctrls[i].id
                  /\ sent.controls[i].size = U32(0, ExpectedSize(ctrls[i].value))
                  /\ sent.controls[i].value64 = ExpectedValue64(ctrls[i].value)

C20_Witness ==
    /\ op = "set_controls" /\ Len(kcalls) = 1 /\ Len(ctrls) = MaxBatch
    /\ ctrls[1].value = None /\ ctrls[2].value = Buffer("CompoundU16", <<1, 2>>)
    /\ ctrls[3].value = Boolean(TRUE)
    /\ kcalls[1].payload.controls[2].size = U32(0, 4)

====
